---------------------------- MODULE Spec2Model ----------------------------
(***************************************************************************)
(* Model of the chatbot flow builder (src/src/App.tsx, FlowBuilder, and    *)
(* src/src/utils/validators.ts, Sidebar).                                  *)
(*                                                                         *)
(* The state is the React state of FlowBuilder: nodes, edges,              *)
(* selectedNodeId, error, level, successMessage, together with the         *)
(* callbacks handed to setTimeout that have not run yet and the reading of *)
(* Date.now().  Every event handler is one action.  Strings that the code  *)
(* inspects (labels, which Sidebar trims) are sequences of one-character   *)
(* strings; identifiers `${Date.now()}-${level}` are pairs <<t, level>>,   *)
(* which the template maps one-to-one to strings.  The value null is the   *)
(* empty tuple.  Node positions are not modelled: no handler reads them.   *)
(* issued is a history variable: the greatest level given to a node since *)
(* construction (0 before the first node); no handler reads it.           *)
(***************************************************************************)
EXTENDS Naturals, Sequences, FiniteSets

VARIABLES nodes, edges, selectedNodeId, error, level, successMessage,
          timers, clock, issued

vars == <<nodes, edges, selectedNodeId, error, level, successMessage,
          timers, clock, issued>>

---------------------------------------------------------------------------
(* Bounds of the model.  MaxNodes nodes are created between two resets. *)

MaxNodes == 3

MaxClock == 1

MaxTimers == 1

---------------------------------------------------------------------------
(* Values. *)

Null == <<>>

InitialLevel == 1

SuccessText == <<"Flow saved successfully!">>

DuplicateOutgoingText == <<"Only one outgoing connection allowed per node.">>

NoRootText == <<"Cannot save Flow: No root node found.">>

DisconnectedText(n) ==
    <<"Cannot save Flow: ", n, " node(s) are not connected to the main flow.">>

DropLabel ==
    <<"N","e","w"," ","T","e","x","t"," ","M","e","s","s","a","g","e">>

(* What the user may have typed in the Sidebar input before "Add Text". *)
SidebarInputs == { <<>>, <<" ">>, <<"a">>, <<" ", "a", " ">> }

(* What the settings panel's textarea may hold after a change event. *)
TextareaValues == { <<"a">> }

ClearError == "clearError"

ClearSuccess == "clearSuccess"

---------------------------------------------------------------------------
(* String.prototype.trim on a sequence of characters. *)

IsSpace(c) == c = " "

RECURSIVE TrimStart(_)
TrimStart(s) ==
    IF s # <<>> /\ IsSpace(Head(s)) THEN TrimStart(Tail(s)) ELSE s

RECURSIVE TrimEnd(_)
TrimEnd(s) ==
    IF s # <<>> /\ IsSpace(s[Len(s)])
    THEN TrimEnd(SubSeq(s, 1, Len(s) - 1))
    ELSE s

Trim(s) == TrimEnd(TrimStart(s))

---------------------------------------------------------------------------
(* Array helpers. *)

Range(s) == { s[i] : i \in DOMAIN s }

Highest(a, b) == IF a >= b THEN a ELSE b

AllNodeIds(nds) == [i \in DOMAIN nds |-> nds[i].id]

TargetNodeIds(eds) == [i \in DOMAIN eds |-> eds[i].target]

Includes(arr, x) == \E i \in DOMAIN arr : arr[i] = x

(* Variant of FindRoot: falls back to the first node when none passes. *)
FindRootOrFirst(ids, targets) ==
    LET hits == { i \in DOMAIN ids : ~Includes(targets, ids[i]) }
    IN  IF hits = {} THEN (IF ids = <<>> THEN Null ELSE ids[1])
        ELSE ids[CHOOSE i \in hits : \A j \in hits : i <= j]

(* Variant of FindRoot: the last element that passes (findLast). *)
FindLastRoot(ids, targets) ==
    LET hits == { i \in DOMAIN ids : ~Includes(targets, ids[i]) }
    IN  IF hits = {} THEN Null
        ELSE ids[CHOOSE i \in hits : \A j \in hits : i >= j]

(* Array.prototype.find: the first element that passes, or undefined. *)
FindRoot(ids, targets) ==
    LET hits == { i \in DOMAIN ids : ~Includes(targets, ids[i]) }
    IN  IF hits = {} THEN Null
        ELSE ids[CHOOSE i \in hits : \A j \in hits : i <= j]

(* nodes.find((n) => n.id === selectedNodeId) *)
SelectedNode ==
    LET hits == { i \in DOMAIN nodes : nodes[i].id = selectedNodeId }
    IN  IF hits = {} THEN Null
        ELSE nodes[CHOOSE i \in hits : \A j \in hits : i <= j]

---------------------------------------------------------------------------
(* Node identity and construction. *)

(* Variant of the identity template: `${Date.now()}` alone. *)
NodeIdClockOnly(now, lvl) == <<now, 0>>

NodeId(now, lvl) == <<now, lvl>>

NewNode(now, lvl, label) ==
    [id |-> NodeId(now, lvl), label |-> label, level |-> lvl]

(* reactflow's addEdge: the connection is appended unless an edge with the *)
(* same endpoints is already stored.                                       *)
AddEdge(params, eds) ==
    IF \E i \in DOMAIN eds :
          eds[i].source = params.source /\ eds[i].target = params.target
    THEN eds
    ELSE Append(eds, [source |-> params.source, target |-> params.target])

SourceAlreadyConnected(eds, src) ==
    \E i \in DOMAIN eds : eds[i].source = src

---------------------------------------------------------------------------
(* handleSave's validation. *)

(* The adjacency list: each source's targets, in edge order. *)
BuildGraph(eds) ==
    [s \in { eds[i].source : i \in DOMAIN eds } |->
        LET IsFrom(e) == e.source = s
            out == SelectSeq(eds, IsFrom)
        IN  [k \in DOMAIN out |-> out[k].target]]

(* graph.get(current) || [] *)
Neighbors(graph, current) ==
    IF current \in DOMAIN graph THEN graph[current] ELSE <<>>

(* Variant of BFS: neighbours are marked but never expanded in turn. *)
BFSOneHop(graph, queue, visited) ==
    IF queue = <<>> THEN visited
    ELSE visited \cup {Head(queue)} \cup Range(Neighbors(graph, Head(queue)))

(* The while loop: shift the head, mark it, push its unvisited neighbours. *)
RECURSIVE BFS(_, _, _)
BFS(graph, queue, visited) ==
    IF queue = <<>> THEN visited
    ELSE LET current == Head(queue)
             seen == visited \cup {current}
             Unvisited(n) == n \notin seen
         IN  BFS(graph,
                 Tail(queue) \o SelectSeq(Neighbors(graph, current), Unvisited),
                 seen)

(* Variant of validateFlow: counts the nodes with no outgoing edge. *)
ValidateFlowSources(nds, eds) ==
    LET sourceNodeIds == { eds[i].source : i \in DOMAIN eds }
        NoOutgoing(n) == n.id \notin sourceNodeIds
        isolatedNodes == SelectSeq(nds, NoOutgoing)
    IN  Len(isolatedNodes) <= 1

(* validateFlow of utils/validators.ts *)
ValidateFlow(nds, eds) ==
    LET targetNodeIds == { eds[i].target : i \in DOMAIN eds }
        NoIncoming(n) == n.id \notin targetNodeIds
        isolatedNodes == SelectSeq(nds, NoIncoming)
    IN  Len(isolatedNodes) <= 1

(* Variant of the forEach: every neighbour is pushed, visited or not. *)
PushedAll(graph, current, seen) == Neighbors(graph, current)

(* neighbors.forEach((n) => { if (!visited.has(n)) queue.push(n); }) *)
Pushed(graph, current, seen) ==
    LET Unvisited(n) == n \notin seen
    IN  SelectSeq(Neighbors(graph, current), Unvisited)

(* The same while loop, observed: the nodes shifted off the queue in       *)
(* order, the greatest length the queue had at a loop test, and whether    *)
(* the queue emptied within budget iterations.                             *)
RECURSIVE BFSRun(_, _, _, _, _, _)
BFSRun(graph, queue, visited, expanded, maxQueue, budget) ==
    IF queue = <<>>
    THEN [done |-> TRUE, visited |-> visited, expanded |-> expanded,
          maxQueue |-> maxQueue]
    ELSE IF budget = 0
    THEN [done |-> FALSE, visited |-> visited, expanded |-> expanded,
          maxQueue |-> maxQueue]
    ELSE LET current == Head(queue)
             seen == visited \cup {current}
             rest == Tail(queue) \o Pushed(graph, current, seen)
         IN  BFSRun(graph, rest, seen, Append(expanded, current),
                    Highest(maxQueue, Len(rest)), budget - 1)

RootNode(nds, eds) == FindRoot(AllNodeIds(nds), TargetNodeIds(eds))

(* handleSave's loop on the stores, started as at line 185. *)
SaveLoop(nds, eds, budget) ==
    BFSRun(BuildGraph(eds), <<RootNode(nds, eds)>>, {}, <<>>, 1, budget)

Visited(nds, eds) == BFS(BuildGraph(eds), <<RootNode(nds, eds)>>, {})

DisconnectedNodes(nds, eds) ==
    LET NotVisited(id) == id \notin Visited(nds, eds)
    IN  SelectSeq(AllNodeIds(nds), NotVisited)

---------------------------------------------------------------------------
(* The state after construction. *)

Init ==
    /\ nodes = <<>>
    /\ edges = <<>>
    /\ selectedNodeId = Null
    /\ error = Null
    /\ level = InitialLevel
    /\ successMessage = Null
    /\ timers = <<>>
    /\ clock = 0
    /\ issued = 0

---------------------------------------------------------------------------
(* Event handlers. *)

(* onAddTextNode(label), with Date.now() reading now. *)
OnAddTextNode(label, now) ==
    /\ nodes' = Append(nodes, NewNode(now, level, label))
    /\ level' = level + 1
    /\ clock' = now
    /\ issued' = Highest(issued, level)
    /\ UNCHANGED <<edges, selectedNodeId, error, successMessage, timers>>

(* Variant of handleAdd: the untrimmed input is passed on. *)
HandleAddUntrimmed(input) ==
    /\ SelectedNode = Null
    /\ level <= MaxNodes
    /\ IF Trim(input) # <<>>
       THEN \E now \in clock..MaxClock : OnAddTextNode(input, now)
       ELSE UNCHANGED vars

(* Sidebar's handleAdd with inputValue = input.  The Sidebar is rendered  *)
(* only while no node is selected.                                         *)
HandleAdd(input) ==
    /\ SelectedNode = Null
    /\ level <= MaxNodes
    /\ IF Trim(input) # <<>>
       THEN \E now \in clock..MaxClock : OnAddTextNode(Trim(input), now)
       ELSE UNCHANGED vars

(* Variant of onDrop: setLevel is missing. *)
OnDropKeepLevel ==
    /\ level <= MaxNodes
    /\ Len(nodes) < MaxNodes
    /\ \E now \in clock..MaxClock :
         /\ nodes' = Append(nodes, NewNode(now, level, DropLabel))
         /\ clock' = now
    /\ issued' = Highest(issued, level)
    /\ UNCHANGED <<edges, selectedNodeId, error, level, successMessage, timers>>

(* onDrop with a drag that carries a node type. *)
OnDrop ==
    /\ level <= MaxNodes
    /\ \E now \in clock..MaxClock :
         /\ nodes' = Append(nodes, NewNode(now, level, DropLabel))
         /\ level' = level + 1
         /\ clock' = now
    /\ issued' = Highest(issued, level)
    /\ UNCHANGED <<edges, selectedNodeId, error, successMessage, timers>>

(* Variant of onConnect: the outgoing-edge check is missing. *)
OnConnectNoCheck(source, target) ==
    /\ edges' = AddEdge([source |-> source, target |-> target], edges)
    /\ UNCHANGED <<nodes, selectedNodeId, error, level, successMessage,
                   timers, clock, issued>>

(* Variant of onConnect: a second connection replaces the stored one. *)
OnConnectOverwrite(source, target) ==
    IF ~SourceAlreadyConnected(edges, source)
    THEN /\ edges' = AddEdge([source |-> source, target |-> target], edges)
         /\ UNCHANGED <<nodes, selectedNodeId, error, level, successMessage,
                        timers, clock, issued>>
    ELSE /\ Len(timers) < MaxTimers
         /\ error' = DuplicateOutgoingText
         /\ timers' = Append(timers, ClearError)
         /\ edges' = [i \in DOMAIN edges |->
                        IF edges[i].source = source
                        THEN [source |-> source, target |-> target]
                        ELSE edges[i]]
         /\ UNCHANGED <<nodes, selectedNodeId, level, successMessage, clock, issued>>

(* Variant of onConnect: a connection from a node to itself is refused    *)
(* like a second outgoing edge.                                            *)
OnConnectNoSelfLoop(source, target) ==
    IF ~SourceAlreadyConnected(edges, source) /\ source # target
    THEN /\ edges' = AddEdge([source |-> source, target |-> target], edges)
         /\ UNCHANGED <<nodes, selectedNodeId, error, level, successMessage,
                        timers, clock, issued>>
    ELSE /\ Len(timers) < MaxTimers
         /\ error' = DuplicateOutgoingText
         /\ timers' = Append(timers, ClearError)
         /\ UNCHANGED <<nodes, edges, selectedNodeId, level, successMessage,
                        clock, issued>>

(* onConnect: the canvas offers connections between two stored nodes. *)
OnConnect(source, target) ==
    IF ~SourceAlreadyConnected(edges, source)
    THEN /\ edges' = AddEdge([source |-> source, target |-> target], edges)
         /\ UNCHANGED <<nodes, selectedNodeId, error, level, successMessage,
                        timers, clock, issued>>
    ELSE /\ Len(timers) < MaxTimers
         /\ error' = DuplicateOutgoingText
         /\ timers' = Append(timers, ClearError)
         /\ UNCHANGED <<nodes, edges, selectedNodeId, level, successMessage,
                        clock, issued>>

Connect ==
    \E s \in Range(AllNodeIds(nodes)), t \in Range(AllNodeIds(nodes)) :
        OnConnect(s, t)

OnNodeClick(id) ==
    /\ selectedNodeId' = id
    /\ UNCHANGED <<nodes, edges, error, level, successMessage, timers, clock, issued>>

NodeClick == \E id \in Range(AllNodeIds(nodes)) : OnNodeClick(id)

(* The settings panel's "Back to Nodes Panel" button. *)
BackToNodesPanel ==
    /\ SelectedNode # Null
    /\ selectedNodeId' = Null
    /\ UNCHANGED <<nodes, edges, error, level, successMessage, timers, clock, issued>>

(* Variant of updateNodeLabel: the comparison with selectedNodeId is      *)
(* missing.                                                                *)
UpdateNodeLabelAll(label) ==
    /\ nodes' = [i \in DOMAIN nodes |-> [nodes[i] EXCEPT !.label = label]]
    /\ UNCHANGED <<edges, selectedNodeId, error, level, successMessage,
                   timers, clock, issued>>

UpdateNodeLabel(label) ==
    /\ nodes' = [i \in DOMAIN nodes |->
                   IF nodes[i].id = selectedNodeId
                   THEN [nodes[i] EXCEPT !.label = label]
                   ELSE nodes[i]]
    /\ UNCHANGED <<edges, selectedNodeId, error, level, successMessage,
                   timers, clock, issued>>

(* The textarea exists only while the selected node is found. *)
EditLabel ==
    /\ SelectedNode # Null
    /\ \E label \in TextareaValues : UpdateNodeLabel(label)

(* reactflow's delete key on a selected node: the canvas reports the node's *)
(* removal through onNodesChange and the removal of every edge connected   *)
(* to it through onEdgesChange.  selectedNodeId is left as it is.          *)
DeleteNode(id) ==
    /\ nodes' = SelectSeq(nodes, LAMBDA n : n.id # id)
    /\ edges' = SelectSeq(edges, LAMBDA e : e.source # id /\ e.target # id)
    /\ UNCHANGED <<selectedNodeId, error, level, successMessage, timers,
                   clock, issued>>

NodeDeleted == \E id \in Range(AllNodeIds(nodes)) : DeleteNode(id)

(* reactflow's delete key on a selected edge, reported through             *)
(* onEdgesChange.                                                          *)
DeleteEdge(i) ==
    /\ edges' = [k \in 1..(Len(edges) - 1) |->
                   IF k < i THEN edges[k] ELSE edges[k + 1]]
    /\ UNCHANGED <<nodes, selectedNodeId, error, level, successMessage,
                   timers, clock, issued>>

EdgeDeleted == \E i \in DOMAIN edges : DeleteEdge(i)

(* Variant of handleReset: setLevel(1) is missing. *)
HandleResetKeepLevel ==
    /\ nodes' = <<>>
    /\ edges' = <<>>
    /\ selectedNodeId' = Null
    /\ error' = Null
    /\ successMessage' = Null
    /\ UNCHANGED <<level, timers, clock, issued>>

HandleReset ==
    /\ nodes' = <<>>
    /\ edges' = <<>>
    /\ level' = InitialLevel
    /\ selectedNodeId' = Null
    /\ error' = Null
    /\ successMessage' = Null
    /\ UNCHANGED <<timers, clock, issued>>

(* The Reset button is disabled while there are no nodes. *)
ClickReset == Len(nodes) # 0 /\ HandleReset

(* Variant of the success branch: no setTimeout. *)
SaveSucceedsNoTimer ==
    /\ Len(timers) < MaxTimers
    /\ error' = Null
    /\ successMessage' = SuccessText
    /\ UNCHANGED timers

SaveSucceeds ==
    /\ Len(timers) < MaxTimers
    /\ error' = Null
    /\ successMessage' = SuccessText
    /\ timers' = Append(timers, ClearSuccess)

(* Variant of handleSave: the early return for 0 or 1 nodes is missing. *)
HandleSaveNoShortcut ==
    /\ UNCHANGED <<nodes, edges, selectedNodeId, level, clock, issued>>
    /\ IF RootNode(nodes, edges) = Null
       THEN /\ error' = NoRootText
            /\ UNCHANGED <<successMessage, timers>>
       ELSE IF Len(DisconnectedNodes(nodes, edges)) > 0
       THEN /\ error' = DisconnectedText(Len(DisconnectedNodes(nodes, edges)))
            /\ UNCHANGED <<successMessage, timers>>
       ELSE SaveSucceeds

(* Variant of handleSave: disconnected nodes are dropped from the store.  *)
HandleSavePrunes ==
    /\ UNCHANGED <<edges, selectedNodeId, level, clock, issued>>
    /\ IF Len(nodes) <= 1
       THEN SaveSucceeds /\ UNCHANGED nodes
       ELSE IF RootNode(nodes, edges) = Null
       THEN /\ error' = NoRootText
            /\ UNCHANGED <<nodes, successMessage, timers>>
       ELSE IF Len(DisconnectedNodes(nodes, edges)) > 0
       THEN /\ error' = DisconnectedText(Len(DisconnectedNodes(nodes, edges)))
            /\ nodes' = SelectSeq(nodes,
                          LAMBDA n : n.id \in Visited(nodes, edges))
            /\ UNCHANGED <<successMessage, timers>>
       ELSE SaveSucceeds /\ UNCHANGED nodes

HandleSave ==
    /\ UNCHANGED <<nodes, edges, selectedNodeId, level, clock, issued>>
    /\ IF Len(nodes) <= 1
       THEN SaveSucceeds
       ELSE IF RootNode(nodes, edges) = Null
       THEN /\ error' = NoRootText
            /\ UNCHANGED <<successMessage, timers>>
       ELSE IF Len(DisconnectedNodes(nodes, edges)) > 0
       THEN /\ error' = DisconnectedText(Len(DisconnectedNodes(nodes, edges)))
            /\ UNCHANGED <<successMessage, timers>>
       ELSE SaveSucceeds

(* The Save button is disabled while there are no nodes. *)
ClickSave == Len(nodes) # 0 /\ HandleSave

(* The oldest pending setTimeout callback runs (all delays are 3000 ms, so *)
(* callbacks run in the order they were scheduled).                        *)
TimerFires ==
    /\ timers # <<>>
    /\ timers' = Tail(timers)
    /\ IF Head(timers) = ClearError
       THEN error' = Null /\ UNCHANGED successMessage
       ELSE successMessage' = Null /\ UNCHANGED error
    /\ UNCHANGED <<nodes, edges, selectedNodeId, level, clock, issued>>

Next ==
    \/ \E input \in SidebarInputs : HandleAdd(input)
    \/ OnDrop
    \/ Connect
    \/ NodeClick
    \/ BackToNodesPanel
    \/ EditLabel
    \/ NodeDeleted
    \/ EdgeDeleted
    \/ ClickReset
    \/ ClickSave
    \/ TimerFires

Spec == Init /\ [][Next]_vars

(* Pending timeouts eventually run. *)
FairSpec == Spec /\ WF_vars(TimerFires)

---------------------------------------------------------------------------
(* handleSave applied to any node list and edge list, whether or not the   *)
(* canvas can produce them: up to MaxNodes nodes, up to MaxFnEdges edges   *)
(* between their identities and one identity that is not in the store.     *)

MaxFnEdges == 3

FnNodes(n) == [i \in 1..n |-> NewNode(0, i, DropLabel)]

FnIds == { NodeId(0, l) : l \in 1..(MaxNodes + 1) }

FnEdge == [source : FnIds, target : FnIds]

FnEdgeLists == UNION { [1..k -> FnEdge] : k \in 0..MaxFnEdges }

InitFn ==
    /\ \E n \in 0..MaxNodes : nodes = FnNodes(n) /\ level = n + 1 /\ issued = n
    /\ edges \in FnEdgeLists
    /\ selectedNodeId = Null
    /\ error = Null
    /\ successMessage = Null
    /\ timers = <<>>
    /\ clock = 0

NextFn ==
    \/ HandleSave
    \/ TimerFires

SpecFn == InitFn /\ [][NextFn]_vars

---------------------------------------------------------------------------
(* The handlers called as an interface, with arguments the canvas would    *)
(* not pass: onConnect with any identity that may have been issued since   *)
(* the last reset, stored or not, and updateNodeLabel whatever             *)
(* selectedNodeId holds.  At most MaxApiEdges edges are stored.            *)

MaxApiEdges == 2

(* The identity of each stored node, and for a level whose node was        *)
(* removed every identity it may have had.                                 *)
ApiIds ==
    { id \in { NodeId(t, l) : t \in 0..clock, l \in 1..(level - 1) } :
        \A i \in DOMAIN nodes : nodes[i].level = id[2] => nodes[i].id = id }

ConnectAny ==
    /\ Len(edges) < MaxApiEdges
    /\ \E s \in ApiIds, t \in ApiIds : OnConnect(s, t)

UpdateAny == \E label \in TextareaValues : UpdateNodeLabel(label)

NextApi ==
    \/ OnDrop
    \/ NodeDeleted
    \/ ConnectAny
    \/ NodeClick
    \/ UpdateAny
    \/ TimerFires

SpecApi == Init /\ [][NextApi]_vars

---------------------------------------------------------------------------
(* What the claims speak of, stated on the stores directly. *)

NodeIdSet == { nodes[i].id : i \in DOMAIN nodes }

HasIncoming(id) == \E i \in DOMAIN edges : edges[i].target = id

RootCandidates == { id \in NodeIdSet : ~HasIncoming(id) }

PositionOf(id) == CHOOSE i \in DOMAIN nodes : nodes[i].id = id

FirstRootCandidate ==
    CHOOSE r \in RootCandidates :
        \A q \in RootCandidates : PositionOf(r) <= PositionOf(q)

(* The identities reachable from S along edges, as a least fixed point. *)
RECURSIVE Closure(_)
Closure(S) ==
    LET step == S \cup { edges[i].target :
                           i \in { j \in DOMAIN edges : edges[j].source \in S } }
    IN  IF step = S THEN S ELSE Closure(step)

Unreached == NodeIdSet \ Closure({FirstRootCandidate})

ReportsValid == error' = Null /\ successMessage' = SuccessText

IsValidationError(e) == e # Null /\ e # DuplicateOutgoingText

(* The loop of handleSave is entered. *)
LoopEntered == Len(nodes) >= 2 /\ RootNode(nodes, edges) # Null

(* More iterations than the loop can make: an iteration shifts a node that *)
(* was pushed along a path of distinct edges from the root, and there are  *)
(* at most 2^Len(edges) such paths.                                        *)
IterationLimit == 2 ^ Len(edges)

OutgoingEdges(id) == { i \in DOMAIN edges : edges[i].source = id }

(* The stored nodes in one line from the root: each but the last has       *)
(* exactly one outgoing edge, which leads to the next.                     *)
IsChain ==
    \E p \in [1..Len(nodes) -> NodeIdSet] :
        /\ \A k, m \in DOMAIN p : p[k] = p[m] => k = m
        /\ p[1] = FirstRootCandidate
        /\ \A k \in 1..(Len(nodes) - 1) :
              /\ Cardinality(OutgoingEdges(p[k])) = 1
              /\ \A i \in OutgoingEdges(p[k]) : edges[i].target = p[k + 1]

---------------------------------------------------------------------------
(* Claims. *)

(* C1: in every reachable state no node identity is the source of more    *)
(* than one stored edge.                                                   *)
C1_OneOutgoingEdgePerSource ==
    \A i, j \in DOMAIN edges : edges[i].source = edges[j].source => i = j

(* A second connection out of a connected node was attempted, with two    *)
(* edges stored.                                                           *)
C1_Witness ==
    /\ Len(edges) >= 2
    /\ error = DuplicateOutgoingText

(* C2: a connect whose source already has an outgoing edge is rejected    *)
(* with the duplicate-outgoing error and leaves the edges, the nodes and   *)
(* the sequence counter as they were.                                      *)
C2_RejectedConnectChangesNothing ==
    [][\A s \in NodeIdSet, t \in NodeIdSet :
          (OnConnect(s, t) /\ SourceAlreadyConnected(edges, s))
          => /\ error' = DuplicateOutgoingText
             /\ edges' = edges
             /\ nodes' = nodes
             /\ level' = level]_vars

(* The rejected connect has just run: its message is displayed and its    *)
(* clearing timeout is pending.                                            *)
C2_Witness ==
    /\ error = DuplicateOutgoingText
    /\ timers # <<>>
    /\ Head(timers) = ClearError
    /\ Len(edges) = 1
    /\ Len(nodes) = 3

(* C3: with 2 or more nodes, save reports Valid exactly when some node    *)
(* has no incoming edge and every node is reachable from the first such    *)
(* node in insertion order; when some node is not, it reports Disconnected *)
(* with the number of unreached nodes.                                     *)
C3_SaveDecidesReachability ==
    [][(HandleSave /\ Len(nodes) >= 2)
       => /\ ReportsValid <=> (RootCandidates # {} /\ Unreached = {})
          /\ (RootCandidates # {} /\ Unreached # {})
             => error' = DisconnectedText(Cardinality(Unreached))]_vars

(* Three nodes, a chain of two and one isolated node, saved. *)
C3_Witness ==
    /\ Len(nodes) = 3
    /\ Len(edges) = 1
    /\ edges[1].source = nodes[1].id
    /\ edges[1].target = nodes[2].id
    /\ error = DisconnectedText(1)

(* C4: with 2 or more nodes that are all the target of some edge, save    *)
(* reports NoRoot and does not report success.                             *)
C4_NoRootReported ==
    [][(HandleSave /\ Len(nodes) >= 2 /\ \A id \in NodeIdSet : HasIncoming(id))
       => /\ error' = NoRootText
          /\ ~ReportsValid
          /\ UNCHANGED <<successMessage, timers>>]_vars

(* The two-node cycle, saved. *)
C4_Witness ==
    /\ Len(nodes) = 2
    /\ Len(edges) = 2
    /\ \A i \in DOMAIN edges : edges[i].source # edges[i].target
    /\ error = NoRootText

(* C5: with 0 or 1 nodes save reports Valid whatever edges are stored.    *)
C5_TrivialGraphsAreValid ==
    [][(HandleSave /\ Len(nodes) <= 1) => ReportsValid]_vars

(* One node, a self-loop and an edge to an identity that is not stored,   *)
(* saved.                                                                  *)
C5_Witness ==
    /\ Len(nodes) = 1
    /\ \E i \in DOMAIN edges :
          edges[i].source = nodes[1].id /\ edges[i].target = nodes[1].id
    /\ \E i \in DOMAIN edges : edges[i].target \notin NodeIdSet
    /\ successMessage = SuccessText
    /\ error = Null

(* C6: with 2 or more nodes of which several have no incoming edge, the   *)
(* traversal starts at the first of them in insertion order, the others    *)
(* are among the disconnected nodes and the result is not Valid; a Valid   *)
(* graph of 2 or more nodes has exactly one node without incoming edge.    *)
C6_OnlyFirstRootIsUsed ==
    [][(HandleSave /\ Len(nodes) >= 2)
       => /\ Cardinality(RootCandidates) > 1
             => /\ RootNode(nodes, edges) = FirstRootCandidate
                /\ (RootCandidates \ {FirstRootCandidate})
                      \subseteq Range(DisconnectedNodes(nodes, edges))
                /\ error' = DisconnectedText(Len(DisconnectedNodes(nodes, edges)))
                /\ ~ReportsValid
          /\ ReportsValid => Cardinality(RootCandidates) = 1]_vars

(* Two nodes without incoming edge both point at a third; saved. *)
C6_Witness ==
    /\ Len(nodes) = 3
    /\ Cardinality(RootCandidates) = 2
    /\ Len(edges) = 2
    /\ error = DisconnectedText(1)

(* C7: the success message and an error message are never displayed       *)
(* together.                                                               *)
C7_MessagesExclusive ==
    ~(successMessage # Null /\ error # Null)

(* C8: a validation error is cleared only by the next save or by reset.   *)
C8_ValidationErrorStays ==
    [][(IsValidationError(error) /\ error' = Null)
       => (HandleSave \/ HandleReset)]_vars

C10_ResetRestoresInitialStores ==
    [][HandleReset
       => /\ nodes' = <<>>
          /\ edges' = <<>>
          /\ level' = 1
          /\ level' = InitialLevel]_vars

(* Reset ran after nodes were added, connected and saved. *)
C10_Witness ==
    /\ nodes = <<>>
    /\ edges = <<>>
    /\ level = 1
    /\ clock > 0
    /\ timers # <<>>

(* C11: save changes neither the nodes, their contents, the edges nor the *)
(* sequence counter, whatever its outcome.                                 *)
C11_SaveLeavesStoresAlone ==
    [][HandleSave
       => /\ nodes' = nodes
          /\ edges' = edges
          /\ level' = level
          /\ selectedNodeId' = selectedNodeId]_vars

(* A save of three unconnected nodes has failed; the three are stored.    *)
C11_Witness ==
    /\ Len(nodes) = 3
    /\ edges = <<>>
    /\ level = 4
    /\ error = DisconnectedText(2)

C13_EditReplacesOnlyContent ==
    [][\A label \in TextareaValues :
          UpdateNodeLabel(label)
          => /\ Len(nodes') = Len(nodes)
             /\ \A i \in DOMAIN nodes :
                   /\ nodes'[i].id = nodes[i].id
                   /\ nodes'[i].level = nodes[i].level
                   /\ nodes[i].id = selectedNodeId => nodes'[i].label = label
                   /\ nodes[i].id # selectedNodeId => nodes'[i] = nodes[i]
             /\ edges' = edges
             /\ level' = level
             /\ SelectedNode = Null => nodes' = nodes]_vars

(* The first of two dropped nodes was selected and edited. *)
C13_Witness ==
    /\ Len(nodes) = 2
    /\ selectedNodeId = nodes[1].id
    /\ nodes[1].label = <<"a">>
    /\ nodes[2].label = DropLabel

C15_IdentitiesUnique ==
    \A i, j \in DOMAIN nodes : nodes[i].id = nodes[j].id => i = j

(* After a reset, a Sidebar add and a drop with the same clock reading.   *)
C15_Witness ==
    /\ Len(nodes) = 2
    /\ nodes[1].id[1] = nodes[2].id[1]
    /\ nodes[1].label = <<"a">>
    /\ nodes[2].label = DropLabel
    /\ issued >= level

(* C16 as stated: each newly created node receives a sequence index       *)
(* greater than that of every node created before it, resets included.     *)
C16_IndicesNeverReused ==
    [][Len(nodes') > Len(nodes) => nodes'[Len(nodes')].level > issued]_vars

(* C16 amended: between two resets each newly created node receives the   *)
(* current counter, which is greater than the index of every node created  *)
(* since the last reset, and the counter then advances by one; only reset  *)
(* lowers the counter, to 1.                                               *)
C16_IndicesIncreaseBetweenResets ==
    /\ [](\A i \in DOMAIN nodes :
             /\ nodes[i].level < level
             /\ \A j \in DOMAIN nodes : i < j => nodes[i].level < nodes[j].level)
    /\ [][Len(nodes') > Len(nodes)
          => /\ nodes'[Len(nodes')].level = level
             /\ level' = level + 1]_vars
    /\ [][level' # level
          => \/ level' = level + 1 /\ Len(nodes') = Len(nodes) + 1
             \/ HandleReset /\ level' = InitialLevel]_vars

(* Three nodes were created, reset ran, and two nodes were created with   *)
(* the indices 1 and 2 again.                                              *)
C16_Witness ==
    /\ issued = 3
    /\ Len(nodes) = 2
    /\ nodes[1].level = 1
    /\ nodes[2].level = 2
    /\ level = 3

(* C17: in the editor the loop of handleSave never holds more than one   *)
(* node in its queue, and a graph of 2 or more nodes that save accepts is  *)
(* a single chain from the root.                                           *)
C17_TraversalNeverBranches ==
    LoopEntered
    => LET run == SaveLoop(nodes, edges, Len(nodes) + 1)
       IN  /\ run.done
           /\ run.maxQueue <= 1
           /\ DisconnectedNodes(nodes, edges) = <<>> => IsChain

(* Three nodes in a chain whose last node points back into it, saved.     *)
C17_Witness ==
    /\ Len(nodes) = 3
    /\ Len(edges) = 3
    /\ LoopEntered
    /\ DisconnectedNodes(nodes, edges) = <<>>
    /\ successMessage = SuccessText
    /\ error = Null

(* C18: on any node list and edge list, cycles, self-loops, fan-in and    *)
(* edges to missing identities included, the loop of handleSave empties    *)
(* its queue after at most 2^(number of edges) iterations, having visited  *)
(* what handleSave takes as visited.                                       *)
C18_TraversalTerminates ==
    LoopEntered
    => LET run == SaveLoop(nodes, edges, IterationLimit + 1)
       IN  /\ run.done
           /\ Len(run.expanded) <= IterationLimit
           /\ run.visited = Visited(nodes, edges)

(* Three nodes, the last two on a cycle entered from the first; saved.    *)
C18_Witness ==
    /\ Len(nodes) = 3
    /\ Len(edges) = 3
    /\ edges[1].source = nodes[1].id /\ edges[1].target = nodes[2].id
    /\ edges[2].source = nodes[2].id /\ edges[2].target = nodes[3].id
    /\ edges[3].source = nodes[3].id /\ edges[3].target = nodes[2].id
    /\ successMessage = SuccessText

(* C19: onConnect from a stored node to itself, when that node has no     *)
(* outgoing edge, appends the self-loop edge and raises no error.          *)
C19_SelfLoopAccepted ==
    [][\A s \in NodeIdSet :
          (OnConnect(s, s) /\ ~SourceAlreadyConnected(edges, s))
          => /\ edges' = Append(edges, [source |-> s, target |-> s])
             /\ error' = error
             /\ timers' = timers]_vars

(* A stored node whose one outgoing edge leads to itself. *)
C19_Witness ==
    \E i \in DOMAIN edges :
        /\ edges[i].source \in NodeIdSet
        /\ edges[i].target = edges[i].source
        /\ OutgoingEdges(edges[i].source) = {i}

(* C20: whenever handleSave reports a node list and edge list as valid,   *)
(* validateFlow returns true on the same lists.                            *)
C20_SaveValidImpliesValidateFlow ==
    [][(HandleSave /\ ReportsValid) => ValidateFlow(nodes, edges)]_vars

(* Three nodes, the root fanning out to the other two, saved as valid.    *)
C20_Witness ==
    /\ Len(nodes) = 3
    /\ Len(edges) = 2
    /\ \A i \in DOMAIN edges : edges[i].source = nodes[1].id
    /\ { edges[i].target : i \in DOMAIN edges } = { nodes[2].id, nodes[3].id }
    /\ ValidateFlow(nodes, edges)
    /\ successMessage = SuccessText
    /\ error = Null

=============================================================================
